---- MODULE Spec2Model ----
(***************************************************************************)
(* FarmNaturals API (src/app.py) over its PostgreSQL store (src/db.py).    *)
(*                                                                         *)
(* The store is the tables the handlers name in their SQL: users,          *)
(* cart_items, orders, products.  Each HTTP handler is one action, except  *)
(* the two whose interleaving matters: register (a SELECT, then an INSERT  *)
(* in the same READ COMMITTED transaction) and add_to_cart (the upsert     *)
(* statement, then the commit that publishes it and frees its row lock).   *)
(* Money is kept in hundredths so that fractional totals can be stored.    *)
(* The source holds no schema: the only uniqueness the model gives the     *)
(* store is the one the SQL itself names, ON CONFLICT (email,              *)
(* product_name) on cart_items.  The connection scopes of db.py are        *)
(* modelled on their own, in SpecPool.                                     *)
(***************************************************************************)
EXTENDS Integers, Sequences, FiniteSets, TLC

VARIABLES
    users,          \* table users: sequence of rows, in insertion order
    cart_items,     \* table cart_items: set of rows, unique on (email, product_name)
    orders,         \* table orders: sequence of rows, in insertion order
    products,       \* table products: set of ids
    product_seq,    \* the serial behind products.id
    req,            \* per request slot: where a multi-statement handler stands
    resp,           \* the last HTTP response sent
    added,          \* history: per cart key, the quantities of the committed add_to_cart calls, summed
    last_update,    \* history: per order row, the status of the latest update_order_status that
                    \* succeeded on its order number since the row was stored ("none" if none)
    nops,           \* number of writing requests begun
    connection_pool,\* db.py's global: TRUE when the pool was created
    pool_used,      \* scopes holding a connection taken from the pool
    open_conns,     \* scopes holding an unpooled connection
    scope,          \* per client: "idle" or "body" (inside `with get_db_connection()`)
    given_back,     \* times the scope that exited last gave its connection back on exit
    scope_event     \* what the last step of a connection scope was

vars == <<users, cart_items, orders, products, product_seq, req, resp, added, last_update, nops,
          connection_pool, pool_used, open_conns, scope, given_back, scope_event>>

storeVars == <<users, cart_items, orders, products, product_seq>>
histVars == <<added, last_update>>
poolVars == <<connection_pool, pool_used, open_conns, scope, given_back, scope_event>>

----------------------------------------------------------------------------
\* Bounds of the model.

\* writing requests begun in one behaviour
MaxOps == 3
\* clients that may hold a connection scope at once
MaxClients == 11

\* psycopg2.pool.SimpleConnectionPool(minconn=1, maxconn=10)
MAXCONN == 10

Slots == {"r1", "r2"}
SlotBefore(s, r) == s = "r1" /\ r = "r2"
Clients == 1..MaxClients

AdminEmail == "admin@farm"
UserEmail == "a@farm"
Emails == {AdminEmail, UserEmail}
Tokens == Emails \cup {"nobody@farm"}
Passwords == {"pw1", "pw2"}
Salts == {"salt"}
ProductNames == {"ProductX"}
Quantities == {2, 3}
CartKeys == Emails \X ProductNames
Statuses == {"Shipped", "Delivered", ""}
HexSuffixes == {"a1b2", "c3d4"}
Years == {"2025"}
ProductIds == {1}

----------------------------------------------------------------------------
\* passlib.hash.bcrypt

\* bcrypt.hash(password), with the salt it draws
BcryptHash(password, salt) == [salt |-> salt, digest |-> <<salt, password>>]

\* variant: a verify that accepts every password
BcryptVerifyAny(password, hash) == TRUE

\* bcrypt.verify(password, hash)
BcryptVerify(password, hash) == hash.digest = <<hash.salt, password>>

----------------------------------------------------------------------------
\* users

\* indices of the rows `SELECT ... FROM users WHERE email = %s` matches
UserRows(email) == {i \in DOMAIN users : users[i].email = email}

\* variant: a register that stores the flag set
NewUserRowAdmin(email, hashed_pw) ==
    [email |-> email, password |-> hashed_pw, is_admin |-> TRUE]

\* the row register inserts
NewUserRow(email, hashed_pw) ==
    [email |-> email, password |-> hashed_pw, is_admin |-> FALSE]

AdminEmails == {users[i].email : i \in {j \in DOMAIN users : users[j].is_admin}}

Idle == [pc |-> "idle"]

\* a request takes the first free slot (the slots are interchangeable)
FreeSlot(r) == req[r] = Idle /\ \A s \in Slots : SlotBefore(s, r) => req[s] # Idle

Response(op, args, code, body) == [op |-> op, args |-> args, code |-> code, body |-> body]

\* register, first statement: the SELECT and the 400 it may raise
RegisterLookup(r, email, password) ==
    /\ FreeSlot(r)
    /\ IF UserRows(email) # {}
       THEN /\ resp' = Response("register", email, 400, "Email already registered")
            /\ UNCHANGED <<req, nops>>
       ELSE /\ nops < MaxOps
            /\ nops' = nops + 1
            /\ req' = [req EXCEPT ![r] = [pc |-> "register_insert", email |-> email,
                                            password |-> password]]
            /\ UNCHANGED resp
    /\ UNCHANGED <<storeVars, histVars, poolVars>>

\* register, second statement: hash, INSERT, commit
RegisterInsert(r) ==
    /\ req[r].pc = "register_insert"
    /\ \E salt \in Salts :
         users' = Append(users, NewUserRow(req[r].email, BcryptHash(req[r].password, salt)))
    /\ req' = [req EXCEPT ![r] = Idle]
    /\ resp' = Response("register", req[r].email, 200, "User registered successfully")
    /\ UNCHANGED <<cart_items, orders, products, product_seq, histVars, nops, poolVars>>

\* login_token; fetchone() takes any one matching row
LoginToken(username, password) ==
    /\ IF UserRows(username) = {}
       THEN resp' = Response("login", <<username, password>>, 401, "Invalid credentials")
       ELSE \E i \in UserRows(username) :
              IF ~BcryptVerify(password, users[i].password)
              THEN resp' = Response("login", <<username, password>>, 401, "Invalid credentials")
              ELSE resp' = Response("login", <<username, password>>, 200,
                                    [access_token |-> username, token_type |-> "bearer",
                                     is_admin |-> users[i].is_admin])
    /\ UNCHANGED <<storeVars, req, histVars, nops, poolVars>>

\* variant: an admin check that only asks for a registered user
VerifyAdminAnyUser(token) == IF UserRows(token) = {} THEN {401} ELSE {200}

\* verify_admin: the status codes it can end with (200: the token is returned)
VerifyAdmin(token) ==
    IF UserRows(token) = {}
    THEN {401}
    ELSE {IF users[i].is_admin THEN 200 ELSE 403 : i \in UserRows(token)}

AuthDetail(code) ==
    IF code = 401 THEN "Invalid authentication credentials" ELSE "Admin privileges required"

\* Depends(verify_admin) raises: the admin route answers 401 or 403 and its
\* handler never runs
VerifyAdminRejects(token) ==
    /\ \E code \in VerifyAdmin(token) :
         /\ code # 200
         /\ resp' = Response("verify_admin", token, code, AuthDetail(code))
    /\ UNCHANGED <<storeVars, req, histVars, nops, poolVars>>

----------------------------------------------------------------------------
\* cart_items

CartRows(key) == {row \in cart_items : row.email = key[1] /\ row.product_name = key[2]}

\* variant: a read-then-write, which waits for nobody
NoRowLock(r, key) == FALSE

\* INSERT ... ON CONFLICT (email, product_name) DO UPDATE waits while another
\* transaction holds an uncommitted write of the same key
RowLocked(r, key) ==
    \E s \in Slots \ {r} : req[s].pc = "cart_commit" /\ req[s].key = key

\* RETURNING quantity: the inserted quantity, or the stored one plus EXCLUDED.quantity
UpsertQuantity(key, quantity) ==
    IF CartRows(key) = {}
    THEN quantity
    ELSE (CHOOSE row \in CartRows(key) : TRUE).quantity + quantity

\* add_to_cart: the upsert statement
AddToCartExecute(r, email, product_name, quantity) ==
    LET key == <<email, product_name>> IN
    /\ FreeSlot(r)
    /\ nops < MaxOps
    /\ ~RowLocked(r, key)
    /\ nops' = nops + 1
    /\ req' = [req EXCEPT ![r] = [pc |-> "cart_commit", key |-> key, quantity |-> quantity,
                                  result |-> UpsertQuantity(key, quantity)]]
    /\ UNCHANGED <<storeVars, resp, histVars, poolVars>>

\* add_to_cart: conn.commit() and the response
AddToCartCommit(r) ==
    LET key == req[r].key IN
    /\ req[r].pc = "cart_commit"
    /\ cart_items' = (cart_items \ CartRows(key)) \cup
                       {[email |-> key[1], product_name |-> key[2], quantity |-> req[r].result]}
    /\ added' = [added EXCEPT ![key] = @ + req[r].quantity]
    /\ req' = [req EXCEPT ![r] = Idle]
    /\ resp' = Response("add_to_cart", key, 200, req[r].result)
    /\ UNCHANGED <<users, orders, products, product_seq, last_update, nops, poolVars>>

----------------------------------------------------------------------------
\* orders

\* dict.get(key, default)
DictGet(d, k, default) == IF k \in DOMAIN d THEN d[k] ELSE default

\* d[key] = value
DictSet(d, k, v) == [x \in (DOMAIN d) \cup {k} |-> IF x = k THEN v ELSE d[x]]

\* json.dumps / json.loads of a JSON-born value: the stored text and the value it parses to
JsonDumps(v) == [json_text_of |-> v]
JsonLoads(t) == t.json_text_of

EmptyDict == [kind |-> "object"]
DeliveryObject == [kind |-> "object", address |-> "12 Farm Rd", city |-> "Mysuru",
                   state |-> "KA", zip |-> "570001"]
DeliveryText == [kind |-> "string"]

SuppliedNumber == <<"ORD-7">>
OneItemCart == <<[name |-> "ProductX", price |-> 525, quantity |-> 2]>>

Payload(orderData, cart) ==
    [email |-> UserEmail, orderData |-> orderData, cart |-> cart, payment_method |-> "COD"]

Payloads ==
    { Payload([notes |-> "none"], <<>>),
      Payload([notes |-> "none", orderNumber |-> SuppliedNumber, total |-> 1050,
               deliveryDetails |-> DeliveryObject], OneItemCart),
      Payload([notes |-> "none", deliveryDetails |-> DeliveryText], <<>>) }

\* f"FN-{datetime.now().year}-{uuid4().hex[:4]}"
GeneratedNumber(year, hex4) == <<"FN-", year, "-", hex4>>

OrderNumbers ==
    {SuppliedNumber} \cup {GeneratedNumber(y, h) : y \in Years, h \in HexSuffixes}

\* f"{address}, {city}, {state} - {zip}"
DeliveryAddress(delivery) ==
    <<DictGet(delivery, "address", ""), ", ", DictGet(delivery, "city", ""), ", ",
      DictGet(delivery, "state", ""), " - ", DictGet(delivery, "zip", "")>>

\* item.dict()
ItemDict(item) == [name |-> item.name, price |-> item.price, quantity |-> item.quantity]

\* variant: the cart is not injected
OrderDataKeepsOwnCart(orderData, cart) == DictSet(orderData, "cart", DictGet(orderData, "cart", <<>>))

\* payload.orderData["cart"] = [item.dict() for item in payload.cart]
OrderDataWithCart(orderData, cart) ==
    DictSet(orderData, "cart", [i \in DOMAIN cart |-> ItemDict(cart[i])])

\* the row create_order inserts
OrderRow(payload, generated, now) ==
    [email |-> payload.email,
     order_number |-> DictGet(payload.orderData, "orderNumber", generated),
     total_amount |-> DictGet(payload.orderData, "total", 0),
     delivery_address |->
         DeliveryAddress(DictGet(payload.orderData, "deliveryDetails", EmptyDict)),
     order_data |-> JsonDumps(OrderDataWithCart(payload.orderData, payload.cart)),
     order_date |-> now,
     payment_method |-> payload.payment_method,
     status |-> "Processing"]

\* create_order; delivery.get on a value that is no dict raises, and every
\* exception becomes a 500
CreateOrder(payload) ==
    /\ IF DictGet(payload.orderData, "deliveryDetails", EmptyDict).kind # "object"
       THEN /\ resp' = Response("create_order", payload, 500, "AttributeError")
            /\ UNCHANGED <<orders, last_update, nops>>
       ELSE /\ nops < MaxOps
            /\ nops' = nops + 1
            /\ last_update' = Append(last_update, "none")
            /\ \E y \in Years, h \in HexSuffixes :
                 orders' = Append(orders, OrderRow(payload, GeneratedNumber(y, h),
                                                   Len(orders) + 1))
            /\ resp' = Response("create_order", payload, 200, "Order placed successfully")
    /\ UNCHANGED <<users, cart_items, products, product_seq, req, added, poolVars>>

\* indices of the rows `... FROM orders WHERE order_number = %s` matches
OrderRows(order_number) == {i \in DOMAIN orders : orders[i].order_number = order_number}

\* get_order_status; fetchone() takes any one matching row
GetOrderStatus(order_id) ==
    /\ IF OrderRows(order_id) = {}
       THEN resp' = Response("get_order_status", order_id, 404, "Order not found")
       ELSE \E i \in OrderRows(order_id) :
              resp' = Response("get_order_status", order_id, 200, [status |-> orders[i].status])
    /\ UNCHANGED <<storeVars, req, histVars, nops, poolVars>>

OrderSummary(o) == [order_number |-> o.order_number, total_amount |-> o.total_amount,
                    order_date |-> o.order_date, status |-> o.status]

Reverse(s) == [i \in 1..Len(s) |-> s[Len(s) + 1 - i]]

\* SELECT order_number, total_amount, order_date, status FROM orders
\* WHERE email = %s ORDER BY order_date DESC
UserOrders(email) ==
    LET mine == SelectSeq(orders, LAMBDA o : o.email = email)
    IN  Reverse([i \in 1..Len(mine) |-> OrderSummary(mine[i])])

\* get_user_orders
GetUserOrders(email) ==
    /\ resp' = Response("get_user_orders", email, 200, UserOrders(email))
    /\ UNCHANGED <<storeVars, req, histVars, nops, poolVars>>

\* UPDATE orders SET status = %s WHERE order_number = %s
UpdateStatusRows(order_number, status) ==
    [i \in DOMAIN orders |->
        IF orders[i].order_number = order_number
        THEN [orders[i] EXCEPT !.status = status]
        ELSE orders[i]]

\* update_order_status: Depends(verify_admin), then the handler
UpdateOrderStatus(order_number, status, token) ==
    /\ 200 \in VerifyAdmin(token)
    /\ IF status = ""
       THEN /\ resp' = Response("update_order_status", <<order_number, status, token>>,
                                400, "Status is required")
            /\ UNCHANGED <<orders, last_update, nops>>
       ELSE /\ nops < MaxOps
            /\ nops' = nops + 1
            /\ orders' = UpdateStatusRows(order_number, status)
            /\ last_update' = [i \in DOMAIN orders |->
                                 IF i \in OrderRows(order_number) THEN status
                                 ELSE last_update[i]]
            /\ resp' = Response("update_order_status", <<order_number, status, token>>,
                                200, "Order status updated")
    /\ UNCHANGED <<users, cart_items, products, product_seq, req, added, poolVars>>

----------------------------------------------------------------------------
\* products and the dashboard

\* add_product: the INSERT (the serial gives the id)
AddProduct(token) ==
    /\ 200 \in VerifyAdmin(token)
    /\ nops < MaxOps
    /\ nops' = nops + 1
    /\ products' = products \cup {product_seq + 1}
    /\ product_seq' = product_seq + 1
    /\ resp' = Response("add_product", token, 200, "Product added successfully")
    /\ UNCHANGED <<users, cart_items, orders, req, histVars, poolVars>>

\* delete_product: DELETE FROM products WHERE id = %s, no existence check
DeleteProduct(product_id, token) ==
    /\ 200 \in VerifyAdmin(token)
    /\ nops < MaxOps
    /\ nops' = nops + 1
    /\ products' = products \ {product_id}
    /\ resp' = Response("delete_product", <<product_id, token>>, 200,
                        "Product deleted successfully")
    /\ UNCHANGED <<users, cart_items, orders, product_seq, req, histVars, poolVars>>

RECURSIVE SumTotalAmount(_)
\* COALESCE(SUM(total_amount), 0) over a sequence of order rows
SumTotalAmount(rows) ==
    IF rows = <<>> THEN 0 ELSE Head(rows).total_amount + SumTotalAmount(Tail(rows))

\* int(x) on an amount in hundredths: the fraction is cut off, towards zero
PyInt(x) == IF x >= 0 THEN (x \div 100) * 100 ELSE -(((-x) \div 100) * 100)

\* the body get_dashboard_stats returns
DashboardStats ==
    [total_orders |-> Len(orders),
     total_revenue |-> PyInt(SumTotalAmount(orders)),
     total_products |-> Cardinality(products),
     total_customers |-> Cardinality({i \in DOMAIN users : ~users[i].is_admin})]

\* get_dashboard_stats
GetDashboardStats(token) ==
    /\ 200 \in VerifyAdmin(token)
    /\ resp' = Response("get_dashboard_stats", token, 200, DashboardStats)
    /\ UNCHANGED <<storeVars, req, histVars, nops, poolVars>>

----------------------------------------------------------------------------
\* db.py: the connection pool and get_db_connection

\* connection_pool.getconn() / psycopg2.connect(): entering the scope
EnterScope(c) ==
    /\ scope[c] = "idle"
    /\ IF connection_pool
       THEN IF Cardinality(pool_used) < MAXCONN
            THEN /\ pool_used' = pool_used \cup {c}
                 /\ scope' = [scope EXCEPT ![c] = "body"]
                 /\ scope_event' = "entered"
            ELSE \* PoolError("connection pool exhausted"): conn stays None
                 /\ scope_event' = "PoolError"
                 /\ UNCHANGED <<pool_used, scope>>
       ELSE /\ UNCHANGED pool_used
            /\ \/ /\ open_conns' = open_conns \cup {c}
                  /\ scope' = [scope EXCEPT ![c] = "body"]
                  /\ scope_event' = "entered"
               \/ \* connect() raises OperationalError: conn stays None
                  /\ scope_event' = "OperationalError"
                  /\ UNCHANGED <<open_conns, scope>>
    /\ IF connection_pool THEN UNCHANGED open_conns ELSE TRUE
    /\ UNCHANGED given_back
    /\ UNCHANGED <<connection_pool, storeVars, req, resp, histVars, nops>>

\* the finally block: putconn when there is a pool, close otherwise
Finally(c) ==
    /\ IF connection_pool
       THEN /\ pool_used' = pool_used \ {c}
            /\ UNCHANGED open_conns
       ELSE /\ open_conns' = open_conns \ {c}
            /\ UNCHANGED pool_used
    /\ given_back' = 1

\* the body of the with-block completes
ScopeReturn(c) ==
    /\ scope[c] = "body"
    /\ scope' = [scope EXCEPT ![c] = "idle"]
    /\ scope_event' = "returned"
    /\ Finally(c)
    /\ UNCHANGED <<connection_pool, storeVars, req, resp, histVars, nops>>

\* variant: the release sits after the yield instead of in a finally
ScopeRaiseNoRelease(c) ==
    /\ scope[c] = "body"
    /\ scope' = [scope EXCEPT ![c] = "idle"]
    /\ scope_event' = "raised"
    /\ given_back' = 0
    /\ UNCHANGED <<pool_used, open_conns>>
    /\ UNCHANGED <<connection_pool, storeVars, req, resp, histVars, nops>>

\* the body raises (an HTTPException, an OperationalError that is printed and
\* re-raised, or anything else)
ScopeRaise(c) ==
    /\ scope[c] = "body"
    /\ scope' = [scope EXCEPT ![c] = "idle"]
    /\ scope_event' = "raised"
    /\ Finally(c)
    /\ UNCHANGED <<connection_pool, storeVars, req, resp, histVars, nops>>

----------------------------------------------------------------------------
\* The API over its store.

\* the seeded administrator (register never creates one)
InitialUsers ==
    <<[email |-> AdminEmail, password |-> BcryptHash("pw1", "salt"), is_admin |-> TRUE]>>

Init ==
    /\ users = InitialUsers
    /\ cart_items = {}
    /\ orders = <<>>
    /\ products = {}
    /\ product_seq = 0
    /\ req = [r \in Slots |-> Idle]
    /\ resp = Response("none", "none", 0, "none")
    /\ added = [k \in CartKeys |-> 0]
    /\ last_update = <<>>
    /\ nops = 0
    /\ connection_pool = TRUE
    /\ pool_used = {}
    /\ open_conns = {}
    /\ scope = [c \in Clients |-> "idle"]
    /\ given_back = 0
    /\ scope_event = "none"

Next ==
    \/ \E r \in Slots, e \in Emails, p \in Passwords : RegisterLookup(r, e, p)
    \/ \E r \in Slots : RegisterInsert(r)
    \/ \E e \in Tokens, p \in Passwords : LoginToken(e, p)
    \/ \E r \in Slots, e \in Emails, n \in ProductNames, q \in Quantities :
         AddToCartExecute(r, e, n, q)
    \/ \E r \in Slots : AddToCartCommit(r)
    \/ \E payload \in Payloads : CreateOrder(payload)
    \/ \E n \in OrderNumbers : GetOrderStatus(n)
    \/ \E e \in Emails : GetUserOrders(e)
    \/ \E n \in OrderNumbers, s \in Statuses, t \in Tokens : UpdateOrderStatus(n, s, t)
    \/ \E t \in Tokens : AddProduct(t)
    \/ \E id \in ProductIds, t \in Tokens : DeleteProduct(id, t)
    \/ \E t \in Tokens : GetDashboardStats(t)
    \/ \E t \in Tokens : VerifyAdminRejects(t)

Spec == Init /\ [][Next]_vars

----------------------------------------------------------------------------
\* The persistence gateway alone: clients entering and leaving connection scopes.

InitPool ==
    /\ users = InitialUsers
    /\ cart_items = {}
    /\ orders = <<>>
    /\ products = {}
    /\ product_seq = 0
    /\ req = [r \in Slots |-> Idle]
    /\ resp = Response("none", "none", 0, "none")
    /\ added = [k \in CartKeys |-> 0]
    /\ last_update = <<>>
    /\ nops = 0
    /\ connection_pool \in BOOLEAN
    /\ pool_used = {}
    /\ open_conns = {}
    /\ scope = [c \in Clients |-> "idle"]
    /\ given_back = 0
    /\ scope_event = "none"

NextPool ==
    \/ \E c \in Clients : EnterScope(c)
    \/ \E c \in Clients : ScopeReturn(c)
    \/ \E c \in Clients : ScopeRaise(c)

SpecPool == InitPool /\ [][NextPool]_vars

----------------------------------------------------------------------------
\* Properties.

InFlight(key) == \E r \in Slots : req[r].pc = "cart_commit" /\ req[r].key = key

\* C1: for every cart key, once every add_to_cart call on it has committed,
\* there is no cart line when no call committed, and otherwise exactly one
\* line, whose quantity is the sum of the quantities of the committed calls.
C1_NoLostAddition ==
    \A key \in CartKeys :
        ~InFlight(key) =>
            IF added[key] = 0
            THEN CartRows(key) = {}
            ELSE /\ Cardinality(CartRows(key)) = 1
                 /\ \A row \in CartRows(key) : row.quantity = added[key]

\* two calls, of 2 and of 3, have committed on one key
C1_TwoThenThree ==
    /\ added[<<UserEmail, "ProductX">>] = 5
    /\ ~InFlight(<<UserEmail, "ProductX">>)
    /\ resp.op = "add_to_cart"

\* C2: every stored order has a non-empty order number and no two stored
\* orders share an order number.
C2_OrderNumbersUnique ==
    /\ \A i \in DOMAIN orders : orders[i].order_number # <<>>
    /\ \A i, j \in DOMAIN orders : i # j => orders[i].order_number # orders[j].order_number

\* C3: a register call that finds its email taken answers 400 and every
\* reachable state holds at most one user row per email.
C3_OneUserPerEmail ==
    /\ \A e \in Emails : Cardinality(UserRows(e)) <= 1
    /\ (resp.op = "register" /\ resp.code = 400) => UserRows(resp.args) # {}

\* row i stores a hash of this password
HashOf(i, password) == \E salt \in Salts : users[i].password = BcryptHash(password, salt)

Matches(username, password) == \E i \in UserRows(username) : HashOf(i, password)

AdminOps == {"update_order_status", "add_product", "delete_product", "get_dashboard_stats"}

\* the credential an admin route's handler ran with
TokenOf(rp) ==
    IF rp.op = "update_order_status" THEN rp.args[3]
    ELSE IF rp.op = "delete_product" THEN rp.args[2]
    ELSE rp.args

\* C4: login answers 401 when the email is unknown or no row of it stores a
\* hash of the password, and otherwise 200 with the email as the token and the
\* user's is_admin flag; the admin check accepts a credential exactly when it
\* is the email of a user whose is_admin is true, answers 401 when there is no
\* such user and 403 when the user is not an admin, and an admin handler only
\* runs with an accepted credential.
C4_LoginAndAdminCheck ==
    /\ resp.op = "login" =>
         /\ resp.code \in {200, 401}
         /\ ~Matches(resp.args[1], resp.args[2]) => resp.code = 401
         /\ resp.code = 200 =>
              /\ resp.body.access_token = resp.args[1]
              /\ \E i \in UserRows(resp.args[1]) :
                   /\ HashOf(i, resp.args[2])
                   /\ resp.body.is_admin = users[i].is_admin
    /\ \A t \in Tokens :
         VerifyAdmin(t) = IF UserRows(t) = {} THEN {401}
                          ELSE IF t \in AdminEmails THEN {200} ELSE {403}
    /\ resp.op = "verify_admin" =>
         /\ resp.code = 401 <=> UserRows(resp.args) = {}
         /\ resp.code = 403 <=> (UserRows(resp.args) # {} /\ resp.args \notin AdminEmails)
    /\ resp.op \in AdminOps => TokenOf(resp) \in AdminEmails

\* a registered user who is no admin has logged in; the token is the email
C4_UserLoggedIn ==
    /\ resp.op = "login"
    /\ resp.code = 200
    /\ resp.body.access_token = UserEmail
    /\ ~resp.body.is_admin
    /\ VerifyAdmin(UserEmail) = {403}

\* what the order stored in row i should read: "Processing" until an update
\* of its number succeeds, then the status of the latest such update
ExpectedStatus(i) == IF last_update[i] = "none" THEN "Processing" ELSE last_update[i]

\* C5: get_status(n) answers 404 exactly when no order has number n, and
\* otherwise the status every order with number n should read ("Processing"
\* until updated, then the latest update's status); the owner's order list
\* shows the same.
C5_StatusReflectsUpdates ==
    /\ resp.op = "get_order_status" =>
         /\ resp.code = 404 <=> OrderRows(resp.args) = {}
         /\ resp.code = 200 =>
              \A i \in OrderRows(resp.args) : resp.body.status = ExpectedStatus(i)
    /\ resp.op = "get_user_orders" =>
         \A k \in DOMAIN resp.body :
            \A i \in OrderRows(resp.body[k].order_number) :
                orders[i].email = resp.args => resp.body[k].status = ExpectedStatus(i)

Frozen(o) == <<o.order_number, o.email, o.total_amount, o.delivery_address, o.order_data,
               o.order_date, o.payment_method>>

\* C6: a stored order stays stored and keeps every column but status; its
\* status changes only in a step of update_order_status that answered 200 to
\* an admin's credential, for that order number and to the status asked for;
\* a step that changes orders otherwise is a create_order appending one row;
\* a rejected update (401, 403, 400) changes no order.
C6_OrdersFrame ==
    [][ /\ Len(orders') >= Len(orders)
        /\ \A i \in DOMAIN orders :
             /\ Frozen(orders'[i]) = Frozen(orders[i])
             /\ orders'[i].status # orders[i].status =>
                  /\ resp'.op = "update_order_status"
                  /\ resp'.code = 200
                  /\ resp'.args[3] \in AdminEmails
                  /\ resp'.args[1] = orders[i].order_number
                  /\ resp'.args[2] = orders'[i].status
        /\ Len(orders') > Len(orders) =>
             /\ resp'.op = "create_order"
             /\ Len(orders') = Len(orders) + 1
             /\ \A i \in DOMAIN orders : orders'[i] = orders[i]
        /\ (resp'.op = "verify_admin" \/ resp'.code \in {400, 401, 403, 404, 500}) =>
             orders' = orders
      ]_vars

\* an admin has moved a stored order to "Shipped"
C6_AdminShipped ==
    /\ resp.op = "update_order_status"
    /\ resp.code = 200
    /\ \E i \in DOMAIN orders : orders[i].status = "Shipped"

\* C7: the cart snapshot in a stored order's order_data is the cart list of
\* the create_order call that stored it and never changes afterwards (so no
\* add_to_cart changes it), and create_order changes no cart line.
C7_SnapshotIndependent ==
    [][ /\ \A i \in DOMAIN orders :
             /\ i \in DOMAIN orders'
             /\ orders'[i].order_data = orders[i].order_data
        /\ Len(orders') > Len(orders) =>
             /\ resp'.op = "create_order"
             /\ JsonLoads(orders'[Len(orders')].order_data)["cart"] = resp'.args.cart
             /\ cart_items' = cart_items
      ]_vars

\* an add_to_cart committed after an order with a one-item snapshot was stored
C7_AddAfterCheckout ==
    /\ resp.op = "add_to_cart"
    /\ cart_items # {}
    /\ \E i \in DOMAIN orders : JsonLoads(orders[i].order_data)["cart"] = OneItemCart

NonAdmins == {i \in DOMAIN users : users[i].is_admin = FALSE}

\* C9: the stats returned to an admin are the aggregates of the store: the
\* number of orders, the sum of total_amount, the number of products, the
\* number of users that are no admins.
C9_StatsAreAggregates ==
    (resp.op = "get_dashboard_stats" /\ resp.code = 200) =>
        /\ resp.body.total_orders = Cardinality(DOMAIN orders)
        /\ resp.body.total_revenue = SumTotalAmount(orders)
        /\ resp.body.total_products = Cardinality(products)
        /\ resp.body.total_customers = Cardinality(NonAdmins)

\* C10: user rows are never changed or deleted, every row added has is_admin
\* false, the set of admin emails stays the initial one, and a credential the
\* admin check answers 403 to is answered 403 ever after.
C10_AdminsFixed ==
    /\ [](AdminEmails = {AdminEmail})
    /\ [][ /\ \A i \in DOMAIN users : i \in DOMAIN users' /\ users'[i] = users[i]
           /\ \A i \in (DOMAIN users') \ (DOMAIN users) : users'[i].is_admin = FALSE
           /\ \A t \in Tokens : 403 \in VerifyAdmin(t) => VerifyAdmin(t)' = {403}
         ]_vars

\* a registered user who is no admin was refused on an admin route
C10_UserRefused ==
    /\ resp.op = "verify_admin"
    /\ resp.code = 403
    /\ resp.args = UserEmail

----------------------------------------------------------------------------
\* Properties of the persistence gateway.

Holding(c) == c \in pool_used \cup open_conns

====
